---- MODULE Spec2Model ----
(***************************************************************************)
(* Model of the browser-automation agent: the AgentOrchestrator            *)
(* (js/agent_orcestrator.js) with its Observe / Decide / Act loop, the     *)
(* Action Executor (performActionInTab) it calls, and the user operations  *)
(* start / pause / resume / stop / abort / retry / subscribe.             *)
(*                                                                         *)
(* JavaScript runs every callback to completion, so one action of the      *)
(* model is one synchronous segment: a public method call (with the        *)
(* synchronous prefix of the loop it launches), or the continuation of a   *)
(* loop instance from the return of an awaited call up to its next await.  *)
(*                                                                         *)
(* The browser side is followed in specifications of its own: the scrape   *)
(* that builds the selector map (SpecScrape), the injected performAction   *)
(* with its highlight (SpecInTab) and waitForTabLoad (SpecWait).           *)
(***************************************************************************)
EXTENDS Integers, Sequences, FiniteSets, TLC

\* ------------------------------------------------------------- bounds
MaxPlanLen == 2       \* plans have 1..MaxPlanLen steps
MaxSteps   == 6       \* segments run over a behaviour (calls and continuations)
MaxLoops   == 2       \* loop instances suspended at the same time
MaxRunSteps == 10     \* segments of a run left to itself (SpecRun)
MaxProbeDepth == 4    \* segments after which calls outside their enabling
                      \* condition are no longer explored (SpecCalls)
MaxNodes == 4         \* elements of a page of any shape (SpecScrape)
MaxWide  == 11        \* children of body in a wide page: indices of two digits
MaxEvents == 3        \* tab updates the browser reports during one wait (SpecWait)

\* ------------------------------------------------------------- values
Undefined == "undefined"
Null      == 0                       \* onStateChange = null
Observers == {1, 2}                  \* callbacks given to subscribe()
NoSelector == << >>                  \* selector null / undefined
MapIds    == {"0_"}                  \* ids a scrape may put in the selector map
OracleIds == {"", "0_", "9_"}        \* data.id the oracle may answer ("" = none)
Texts     == {Undefined, "t"}        \* data.text the oracle may answer

SpecialKinds == {"ABORT", "REQUIRES_MANUAL_INTERVENTION", "WAIT", "COMPLETED"}
BrowserKinds == {"NAVIGATE", "GO_BACK"}
ClickKinds   == {"CLICK", "CHECK", "UNCHECK"}
TextKinds    == {"SELECT", "TYPE", "TYPE_AND_ENTER"}
ElementKinds == ClickKinds \cup TextKinds
ActionKinds  == SpecialKinds \cup BrowserKinds \cup ElementKinds
UnknownKind  == "SCROLL"             \* an action kind outside the closed set
StepDirectives == {"STAY_ON_STEP", "NEXT_STEP", "PREV_STEP"}

Plans == { [i \in 1..n |-> i] : n \in 1..MaxPlanLen }

VARIABLES
    plan,            \* this.plan
    originalPlan,    \* this.originalPlan
    state,           \* this.state (RunState)
    onStateChange,   \* this.onStateChange
    replaced,        \* the callbacks a later subscribe() has replaced
    epoch,           \* identity of the object held by this.state
    loops,           \* the suspended instances of _executionLoop
    nObserve,        \* Observe calls issued so far
    nSteps,          \* segments run so far
    budget,          \* segments a behaviour of this specification may run
    dirty,           \* RunState was mutated and _notify() not called since
    started,         \* start() has been called
    oracleBarred,    \* the oracle answered ABORT and no start()/retry() since
    manualBarred,    \* the oracle asked for manual intervention in a running,
                     \* unpaused run and no resume()/start()/retry() since
    last,            \* what the last segment did
    scrape,          \* one run of scrapePageInTab in a page
    inTab,           \* one run of the injected performAction in a page
    waits            \* the tab-update listeners and timers of waitForTabLoad

orchestrator ==
    << plan, originalPlan, state, onStateChange, replaced, epoch, loops, nObserve,
       nSteps, budget, dirty, started, oracleBarred, manualBarred, last >>

\* the browser side, each part followed step by step in a specification of its own
browser == << scrape, inTab, waits >>

vars == << orchestrator, browser >>

Idle == [pc |-> "idle"]

\* ------------------------------------------------------------- log helpers
Entry(status, name) == [status |-> status, name |-> name]

InitState ==
    [ currentStepIndex |-> 0,
      logs |-> [ mainStep |-> << >>, subStep |-> << >> ],
      isPaused  |-> FALSE,
      isRunning |-> FALSE ]

\* plan[k] of the source (0-based; undefined outside the array)
PlanAt(p, k) == IF k + 1 \in DOMAIN p THEN p[k + 1] ELSE Undefined

getCurrentSubStepLog(s) == s.logs.subStep[Len(s.logs.subStep)]

getCurrentMainStepLog(s) == s.logs.mainStep[Len(s.logs.mainStep)]

\* unshift instead of push: the entry is put in front of the SubStepLog
PushSub_Front(s, e) ==
    [s EXCEPT !.logs.subStep[Len(s.logs.subStep)] = << e >> \o @]

\* this._getCurrentSubStepLog().push(e)
PushSub(s, e) ==
    [s EXCEPT !.logs.subStep[Len(s.logs.subStep)] = Append(@, e)]

\* this._getCurrentMainStepLog().status = st
SetMainStatus(s, st) ==
    [s EXCEPT !.logs.mainStep[Len(s.logs.mainStep)].status = st]

\* PushMain without the seed of the new step's SubStepLog
PushMain_NoSeed(s, name, note) ==
    [s EXCEPT !.logs.mainStep = Append(@, Entry("InProgress", name))]

\* mainStep.push({InProgress, name}); subStep.push([{Completed, note}])
PushMain(s, name, note) ==
    [s EXCEPT !.logs.mainStep = Append(@, Entry("InProgress", name)),
              !.logs.subStep  = Append(@, << Entry("Completed", note) >>)]

\* this._getCurrentSubStepLog().slice(-1)[0].status = st
SetLastSubStatus(s, st) ==
    LET k == Len(s.logs.subStep)
        n == Len(s.logs.subStep[k])
    IN [s EXCEPT !.logs.subStep[k][n].status = st]

\* lastSubStep.name = `${lastSubStep.name} (Error: ${message})`
AppendLastSubName(s, message) ==
    LET k == Len(s.logs.subStep)
        n == Len(s.logs.subStep[k])
    IN [s EXCEPT !.logs.subStep[k][n].name = @ \o << "Error", message >>]

\* ------------------------------------------------------------- contexts
\* A context is the orchestrator's fields while one synchronous segment runs,
\* with what the segment did so far.
Ctx ==
    [ state |-> state, plan |-> plan, epoch |-> epoch, dirty |-> dirty,
      nObserve |-> nObserve,
      notified |-> << >>,      \* observers called by _notify(), in order
      threw    |-> FALSE,      \* an exception is propagating
      launched |-> << >> ]     \* loop instances launched and now suspended

Mut(c, s) == [c EXCEPT !.state = s, !.dirty = (@ \/ s # c.state)]

Throw(c) == [c EXCEPT !.threw = TRUE]

\* _notify() calling a replaced callback as well, as if subscribe() kept a list
notify_AlsoReplaced(c) ==
    IF c.threw THEN c
    ELSE [c EXCEPT !.dirty = FALSE,
                   !.notified = IF onStateChange # Null
                                THEN Append(@, onStateChange)
                                     \o (IF replaced # {}
                                         THEN << CHOOSE r \in replaced : TRUE >> ELSE << >>)
                                ELSE @]

\* _notify(): calls the subscribed callback with this.state, if there is one
notify(c) ==
    IF c.threw THEN c
    ELSE [c EXCEPT !.dirty = FALSE,
                   !.notified = IF onStateChange # Null
                                THEN Append(@, onStateChange) ELSE @]

\* this._getCurrentSubStepLog().push(e): a TypeError when there is no log yet
pushSub(c, e) ==
    IF c.threw THEN c
    ELSE IF Len(c.state.logs.subStep) = 0 THEN Throw(c)
    ELSE Mut(c, PushSub(c.state, e))

\* this._getCurrentMainStepLog().status = st, without a null check
setMain(c, st) ==
    IF c.threw THEN c
    ELSE IF Len(c.state.logs.mainStep) = 0 THEN Throw(c)
    ELSE Mut(c, SetMainStatus(c.state, st))

\* if (currentMainStep) currentMainStep.status = st
setMainIfAny(c, st) ==
    IF c.threw \/ Len(c.state.logs.mainStep) = 0 THEN c
    ELSE Mut(c, SetMainStatus(c.state, st))

setFlags(c, running, paused) ==
    IF c.threw THEN c
    ELSE Mut(c, [c.state EXCEPT !.isRunning = running, !.isPaused = paused])

\* ------------------------------------------------------------- loop instances
NoDetails == [type |-> "", selector |-> NoSelector, text |-> Undefined]
NoRef     == [epoch |-> 0, index |-> 0]
NoEntry   == [epoch |-> 0, index |-> 0, pos |-> 0]

\* The place of the entry a push has just appended to the current SubStepLog.
PushedEntry(c) ==
    LET k == Len(c.state.logs.subStep)
    IN [epoch |-> c.epoch, index |-> k,
        pos |-> IF k = 0 THEN 0 ELSE Len(c.state.logs.subStep[k])]

\* The locals of one instance of _executionLoop that live across an await.
Loop(pc) ==
    [ pc  |-> pc,               \* "observe", "decide", "wait", "act": the await it is at
      obs |-> 0,                \* serial of this iteration's Observe call
      keys |-> {},              \* keys of this iteration's selectorMap
      step |-> "",              \* nextAction.step
      id   |-> "",              \* nextAction.data.id
      actionDetails |-> NoDetails,
      lastSubStep |-> NoRef,    \* the array held by lastSubStep in the WAIT branch
      executing |-> NoEntry,    \* the 'Executing' entry this iteration pushed
      born |-> 0 ]              \* the state object this.state held at the launch

\* The result of a segment of the loop: the context, the instance's locals with
\* the await it stopped at ("top": fell through to the while condition,
\* "done": returned), and the branch it took.
Seg(c, loop, branch) == [ctx |-> c, loop |-> loop, branch |-> branch]

\* ------------------------------------------------------------- public methods
pause(c) ==
    IF ~c.state.isRunning \/ c.state.isPaused THEN c
    ELSE LET c1 == setFlags(c, c.state.isRunning, TRUE)
             c2 == pushSub(c1, Entry("Paused", << "Agent paused by user." >>))
         IN notify(setMain(c2, "Paused"))

\* stop() without the test `currentMainStep.status === 'InProgress'`
stop_AnyStatus(c) ==
    IF c.threw \/ ~c.state.isRunning THEN c
    ELSE LET c1 == setFlags(c, FALSE, FALSE)
             c2 == setMainIfAny(c1, "Failed")
         IN notify(pushSub(c2, Entry("Completed", << "Agent stopped by user." >>)))

\* stop() without `if (!this.state.isRunning) return;`
stop_NoGuard(c) ==
    IF c.threw THEN c
    ELSE LET c1 == setFlags(c, FALSE, FALSE)
             c2 == IF Len(c1.state.logs.mainStep) > 0
                      /\ getCurrentMainStepLog(c1.state).status = "InProgress"
                   THEN setMain(c1, "Failed") ELSE c1
         IN notify(pushSub(c2, Entry("Completed", << "Agent stopped by user." >>)))

stop(c) ==
    IF c.threw \/ ~c.state.isRunning THEN c
    ELSE LET c1 == setFlags(c, FALSE, FALSE)
             c2 == IF Len(c1.state.logs.mainStep) > 0
                      /\ getCurrentMainStepLog(c1.state).status = "InProgress"
                   THEN setMain(c1, "Failed") ELSE c1
         IN notify(pushSub(c2, Entry("Completed", << "Agent stopped by user." >>)))

abort(c) ==
    IF c.threw THEN c
    ELSE LET c1 == setFlags(c, FALSE, FALSE)
             c2 == setMainIfAny(c1, "Failed")
         IN notify(pushSub(c2, Entry("Completed", << "Agent aborted." >>)))

\* handleCriticalError without the call of stop()
handleCriticalError_NoStop(c) ==
    LET c1 == pushSub(c, Entry("Failed", << "Critical Error" >>))
    IN notify(setMain(c1, "Failed"))

handleCriticalError(c) ==
    LET c1 == pushSub(c, Entry("Failed", << "Critical Error" >>))
    IN stop(setMain(c1, "Failed"))

\* The while condition and the top of the body up to
\* `await generateDomAndSelectorMap()`; an exception in the body is caught
\* once and the condition is evaluated again. (The history summary of lines
\* 101-104 only reads the logs.)
LoopTop(c, branch) ==
    IF c.state.isRunning /\ ~c.state.isPaused
    THEN LET c1 == notify(pushSub(c, Entry("Completed", << "Reading page content..." >>)))
         IN IF c1.threw
            THEN Seg(handleCriticalError([c1 EXCEPT !.threw = FALSE]), Loop("done"), "critical")
            ELSE Seg([c1 EXCEPT !.nObserve = @ + 1],
                     [Loop("observe") EXCEPT !.obs = c.nObserve + 1], branch)
    ELSE Seg(c, Loop("done"), branch)

\* The end of a segment: the catch clause, then `continue` / the end of the body.
Finish(r) ==
    LET r1 == IF r.ctx.threw
              THEN Seg(handleCriticalError([r.ctx EXCEPT !.threw = FALSE]),
                       Loop("top"), "critical")
              ELSE r
    IN IF r1.ctx.threw THEN Seg(r1.ctx, Loop("done"), r1.branch)
       ELSE IF r1.loop.pc = "top" THEN LoopTop(r1.ctx, r1.branch)
       ELSE r1

\* this._executionLoop() called from start() / resume(): runs to its first await
executionLoop(c) ==
    IF c.threw THEN c
    ELSE LET r == LoopTop(c, "")
         IN IF r.loop.pc = "done" THEN r.ctx
            ELSE [r.ctx EXCEPT !.launched = Append(@, [r.loop EXCEPT !.born = c.epoch])]

start(c) ==
    IF c.state.isRunning THEN c
    ELSE LET firstStepName == PlanAt(c.plan, 0)
             c1 == setFlags(c, TRUE, c.state.isPaused)
             c2 == Mut(c1, PushMain(c1.state, firstStepName,
                                    << "Agent started with plan", firstStepName >>))
         IN executionLoop(notify(c2))

\* resume() without `this._getCurrentMainStepLog().status = 'InProgress'`
resume_NoStatus(c) ==
    IF ~c.state.isRunning \/ ~c.state.isPaused THEN c
    ELSE LET c1 == setFlags(c, c.state.isRunning, FALSE)
             c2 == pushSub(c1, Entry("Completed", << "Agent resumed by user." >>))
         IN executionLoop(notify(c2))

resume(c) ==
    IF ~c.state.isRunning \/ ~c.state.isPaused THEN c
    ELSE LET c1 == setFlags(c, c.state.isRunning, FALSE)
             c2 == pushSub(c1, Entry("Completed", << "Agent resumed by user." >>))
         IN executionLoop(notify(setMain(c2, "InProgress")))

\* _initState(plan): a new state object
initState(c, p) ==
    [c EXCEPT !.plan = p, !.state = InitState, !.epoch = @ + 1,
              !.dirty = TRUE]

\* retry() without `this._initState(this.originalPlan)`
retry_NoReset(c) == start(c)

retry(c) == start(initState(c, originalPlan))

subscribe(callback) == callback

\* ------------------------------------------------------------- Action Executor
Result(success, message) == [threw |-> FALSE, success |-> success, message |-> message]

\* What the browser does during one call of performActionInTab.
Envs ==
    { e \in [ tabs    : {"ok", "none", "fault"},     \* chrome.tabs.query: a tab, no tab, rejects
              element : BOOLEAN,                      \* document.querySelector finds the element
              chrome  : {"ok", "fault", "noresult"} ] \* tabs.update / goBack / executeScript
      : e.chrome = "ok" /\ e.tabs # "none" /\ (e.tabs = "fault" => e.element) }

\* performAction, the function injected in the page
performAction(actionType, selector, text, found) ==
    IF selector = NoSelector \/ ~found
    THEN Result(FALSE, "Element not found for selector")
    ELSE IF actionType \in ClickKinds
    THEN Result(TRUE, "performed")
    ELSE IF actionType = "SELECT"
    THEN IF text = Undefined THEN Result(FALSE, "No value provided for SELECT action.")
         ELSE Result(TRUE, "performed")
    ELSE IF actionType \in {"TYPE", "TYPE_AND_ENTER"}
    THEN IF text = Undefined THEN Result(FALSE, "No text provided for TYPE action.")
         ELSE Result(TRUE, "performed")
    ELSE Result(FALSE, "Unknown or unhandled action type")

performActionInTab(action, env) ==
    IF env.tabs = "fault"
    THEN [threw |-> TRUE, success |-> FALSE, message |-> "tabs.query rejected"]
    ELSE IF env.tabs = "none" THEN Result(FALSE, "No active tab found.")
    ELSE IF action.type = "NAVIGATE"
    THEN IF action.text = Undefined THEN Result(FALSE, "No URL provided for NAVIGATE.")
         ELSE IF env.chrome = "fault" THEN Result(FALSE, "An error occurred")
         ELSE Result(TRUE, "Navigated")
    ELSE IF action.type = "GO_BACK"
    THEN IF env.chrome = "fault" THEN Result(FALSE, "An error occurred")
         ELSE Result(TRUE, "Navigated back.")
    ELSE IF env.chrome = "fault" THEN Result(FALSE, "An error occurred")
    ELSE IF env.chrome = "noresult"
    THEN Result(FALSE, "Action script did not return a result.")
    ELSE performAction(action.type, action.selector, action.text, env.element)

\* ------------------------------------------------------------- loop segments
\* What the Decision Oracle may answer: a response, or a fault (the call
\* rejects, or the response has no data record, so that the first
\* nextAction.data.x raises a TypeError before anything is logged).
Answer(action, step, id, text) ==
    [fault |-> FALSE, action |-> action, step |-> step, id |-> id, text |-> text]

OracleFault == [Answer("", "", "", Undefined) EXCEPT !.fault = TRUE]

\* (Only the COMPLETED branch and the concrete actions come with every
\* directive: the ABORT, REQUIRES_MANUAL_INTERVENTION and WAIT branches return
\* or continue before nextAction.step is read.)
OracleAnswers ==
    { Answer("COMPLETED", d, "", Undefined) : d \in StepDirectives }
    \cup { Answer(k, "STAY_ON_STEP", "", Undefined) : k \in SpecialKinds \ {"COMPLETED"} }
    \cup { Answer("CLICK", d, "0_", Undefined) : d \in StepDirectives }
    \cup { Answer("CLICK", "NEXT_STEP", "9_", Undefined),        \* an id no map holds
           Answer("NAVIGATE", "STAY_ON_STEP", "", "t"),
           Answer(UnknownKind, "NEXT_STEP", "0_", Undefined),
           OracleFault }

\* AfterObserve with a test of the flags before the oracle is called
AfterObserve_HonoursFlags(c, loop, fault, keys) ==
    IF fault THEN Finish(Seg(Throw(c), loop, ""))
    ELSE IF ~c.state.isRunning \/ c.state.isPaused THEN Seg(c, Loop("done"), "")
    ELSE Finish(Seg(notify(pushSub(c, Entry("Completed", << "Deciding next action..." >>))),
                    [loop EXCEPT !.pc = "decide", !.keys = keys], ""))

\* from the return of generateDomAndSelectorMap() to `await getNextAgentAction()`
AfterObserve(c, loop, fault, keys) ==
    IF fault THEN Finish(Seg(Throw(c), loop, ""))
    ELSE Finish(Seg(notify(pushSub(c, Entry("Completed", << "Deciding next action..." >>))),
                    [loop EXCEPT !.pc = "decide", !.keys = keys], ""))

\* the COMPLETED branch without `this.state.currentStepIndex++`
Completed_NoIncrement(c) ==
    LET c1 == pushSub(c, Entry("Completed", << "Action completed" >>))
        c3 == setMain(c1, "Completed")
    IN IF c3.threw THEN Seg(c3, Loop("top"), "COMPLETED")
       ELSE IF c3.state.currentStepIndex >= Len(c3.plan)
       THEN LET c4 == pushSub(c3, Entry("Completed", << "Plan completed successfully!" >>))
            IN Seg(notify(setFlags(c4, FALSE, c4.state.isPaused)), Loop("done"), "COMPLETED")
       ELSE LET newStepDescription == PlanAt(c3.plan, c3.state.currentStepIndex)
            IN Seg(notify(Mut(c3, PushMain(c3.state, newStepDescription,
                                           << "Now executing step", newStepDescription >>))),
                   Loop("top"), "COMPLETED")

\* the COMPLETED branch, lines 149-165
\* the COMPLETED branch without `this.state.isRunning = false` at the end of the plan
Completed_KeepsRunning(c) ==
    LET c1 == pushSub(c, Entry("Completed", << "Action completed" >>))
        c2 == setMain(c1, "Completed")
        c3 == IF c2.threw THEN c2
              ELSE Mut(c2, [c2.state EXCEPT !.currentStepIndex = @ + 1])
    IN IF c3.threw THEN Seg(c3, Loop("top"), "COMPLETED")
       ELSE IF c3.state.currentStepIndex >= Len(c3.plan)
       THEN LET c4 == pushSub(c3, Entry("Completed", << "Plan completed successfully!" >>))
            IN Seg(notify(c4), Loop("top"), "COMPLETED")
       ELSE LET newStepDescription == PlanAt(c3.plan, c3.state.currentStepIndex)
            IN Seg(notify(Mut(c3, PushMain(c3.state, newStepDescription,
                                           << "Now executing step", newStepDescription >>))),
                   Loop("top"), "COMPLETED")

Completed(c) ==
    LET c1 == pushSub(c, Entry("Completed", << "Action completed" >>))
        c2 == setMain(c1, "Completed")
        c3 == IF c2.threw THEN c2
              ELSE Mut(c2, [c2.state EXCEPT !.currentStepIndex = @ + 1])
    IN IF c3.threw THEN Seg(c3, Loop("top"), "COMPLETED")
       ELSE IF c3.state.currentStepIndex >= Len(c3.plan)
       THEN LET c4 == pushSub(c3, Entry("Completed", << "Plan completed successfully!" >>))
            IN Seg(notify(setFlags(c4, FALSE, c4.state.isPaused)), Loop("done"), "COMPLETED")
       ELSE LET newStepDescription == PlanAt(c3.plan, c3.state.currentStepIndex)
            IN Seg(notify(Mut(c3, PushMain(c3.state, newStepDescription,
                                           << "Now executing step", newStepDescription >>))),
                   Loop("top"), "COMPLETED")

\* the selector taken from the map of the Observe call issued last by any
\* instance, not from this iteration's selectorMap
selectorOf_LatestMap(c, loop, id) ==
    IF id # "" /\ id \in loop.keys THEN << c.nObserve, id >> ELSE NoSelector

\* nextAction.data.id ? selectorMap?.[nextAction.data.id] : null, selectorMap
\* being the local of this iteration (the value under key id in the map that
\* Observe call number loop.obs returned is written << loop.obs, id >>)
selectorOf(c, loop, id) ==
    IF id # "" /\ id \in loop.keys THEN << loop.obs, id >> ELSE NoSelector

\* from the return of getNextAgentAction() to the next await or return
AfterDecide(c, loop, a) ==
    IF a.fault THEN Finish(Seg(Throw(c), loop, ""))
    ELSE IF a.action = "ABORT"
    THEN Finish(Seg(abort(pushSub(c, Entry("Failed", << "Execution aborted by AI" >>))),
                    Loop("done"), "ABORT"))
    ELSE IF a.action = "REQUIRES_MANUAL_INTERVENTION"
    THEN LET c1 == pushSub(c, Entry("Paused", << "Paused for manual intervention" >>))
         IN Finish(Seg(pause(setMainIfAny(c1, "Paused")), Loop("done"),
                       "REQUIRES_MANUAL_INTERVENTION"))
    ELSE IF a.action = "WAIT"
    THEN LET ref == [epoch |-> c.epoch, index |-> Len(c.state.logs.subStep)]
             c1  == notify(pushSub(c, Entry("InProgress", << "Executing" >>)))
         IN Finish(Seg(c1, [Loop("wait") EXCEPT !.lastSubStep = ref,
                                               !.executing = PushedEntry(c1)],
                       "WAIT"))
    ELSE IF a.action = "COMPLETED"
    THEN Finish(Completed(c))
    ELSE LET actionDetails ==
                 [ type |-> a.action,
                   selector |-> selectorOf(c, loop, a.id),
                   text |-> a.text ]
             c1 == notify(pushSub(c, Entry("InProgress", << "Executing" >>)))
         IN Finish(Seg(c1, [Loop("act") EXCEPT !.obs = loop.obs, !.step = a.step,
                                              !.keys = loop.keys, !.id = a.id,
                                              !.actionDetails = actionDetails,
                                              !.executing = PushedEntry(c1)],
                       "execute"))

\* from the end of the 2 second delay of the WAIT branch to the next await
AfterWait(c, loop) ==
    LET ref == loop.lastSubStep
        n   == Len(c.state.logs.subStep[ref.index])
        s1  == IF ref.epoch = c.epoch
               THEN [c.state EXCEPT !.logs.subStep[ref.index][n].status = "Completed"]
               ELSE c.state     \* the array belongs to a discarded state object
    IN Finish(Seg(notify(Mut(c, s1)), Loop("top"), "waited"))

\* ApplyDirective with `currentStepIndex - 1` in place of Math.max(0, ...)
ApplyDirective_NoClamp(c, step) ==
    LET i  == c.state.currentStepIndex
        c1 == IF step = "NEXT_STEP"
              THEN Mut(c, [c.state EXCEPT !.currentStepIndex = i + 1])
              ELSE IF step = "PREV_STEP"
              THEN Mut(c, [c.state EXCEPT !.currentStepIndex = i - 1])
              ELSE c
    IN IF step = "STAY_ON_STEP" THEN c1
       ELSE LET c2 == setMain(c1, "Completed")
            IN IF c2.threw THEN c2
               ELSE IF c2.state.currentStepIndex >= Len(c2.plan)
               THEN setFlags(pushSub(c2, Entry("Completed", << "Plan completed successfully!" >>)),
                             FALSE, c2.state.isPaused)
               ELSE LET newStepDescription == PlanAt(c2.plan, c2.state.currentStepIndex)
                    IN Mut(c2, PushMain(c2.state, newStepDescription,
                                        << "Now executing step", newStepDescription >>))

\* lines 184-203: the step directive after a successful action
ApplyDirective(c, step) ==
    LET i  == c.state.currentStepIndex
        c1 == IF step = "NEXT_STEP"
              THEN Mut(c, [c.state EXCEPT !.currentStepIndex = i + 1])
              ELSE IF step = "PREV_STEP"
              THEN Mut(c, [c.state EXCEPT !.currentStepIndex = IF i - 1 > 0 THEN i - 1 ELSE 0])
              ELSE c
    IN IF step = "STAY_ON_STEP" THEN c1
       ELSE LET c2 == setMain(c1, "Completed")
            IN IF c2.threw THEN c2
               ELSE IF c2.state.currentStepIndex >= Len(c2.plan)
               THEN setFlags(pushSub(c2, Entry("Completed", << "Plan completed successfully!" >>)),
                             FALSE, c2.state.isPaused)
               ELSE LET newStepDescription == PlanAt(c2.plan, c2.state.currentStepIndex)
                    IN Mut(c2, PushMain(c2.state, newStepDescription,
                                        << "Now executing step", newStepDescription >>))

\* from the return of performActionInTab() to the next await or return
AfterAct_GivesUp(c, loop, result) ==
    IF result.threw THEN Finish(Seg(Throw(c), loop, ""))
    ELSE IF result.success
    THEN Finish(Seg(notify(ApplyDirective(Mut(c, SetLastSubStatus(c.state, "Completed")),
                                          loop.step)),
                    Loop("top"), "success"))
    ELSE Seg(stop(Mut(c, AppendLastSubName(SetLastSubStatus(c.state, "Failed"),
                                           result.message))),
             Loop("done"), "failure")

AfterAct(c, loop, result) ==
    IF result.threw THEN Finish(Seg(Throw(c), loop, ""))
    ELSE IF result.success
    THEN Finish(Seg(notify(ApplyDirective(Mut(c, SetLastSubStatus(c.state, "Completed")),
                                          loop.step)),
                    Loop("top"), "success"))
    ELSE Finish(Seg(notify(Mut(c, AppendLastSubName(SetLastSubStatus(c.state, "Failed"),
                                                    result.message))),
                    Loop("top"), "failure"))

\* ------------------------------------------------------------- the state machine
Awaits == {"observe", "decide", "wait", "act"}

NoResult == [threw |-> FALSE, success |-> FALSE, message |-> ""]

Last(op, branch, action, c, calls, exited, from, result) ==
    [ op |-> op, branch |-> branch,
      action |-> action,             \* the action kind the oracle answered
      from |-> from,                 \* the locals of the instance that was continued
      result |-> result,             \* what the awaited call returned
      threw |-> c.threw, notified |-> c.notified,
      pre |-> state,                 \* RunState when the segment began
      calls |-> calls,               \* the awaited calls issued in the segment
      exited |-> exited,             \* the loop instance returned
      launched |-> Len(c.launched) ]

\* new AgentOrchestrator(plan), then what the caller subscribed (Null:
\* nothing); the behaviour runs at most `steps` segments
InitOrchestrator(plans, callback, steps) ==
    /\ plan \in plans
    /\ originalPlan = plan
    /\ state = InitState
    /\ onStateChange = callback
    /\ replaced = {}
    /\ epoch = 1
    /\ loops = << >>
    /\ nObserve = 0
    /\ nSteps = 0
    /\ budget = steps
    /\ dirty = FALSE
    /\ started = FALSE
    /\ oracleBarred = FALSE
    /\ manualBarred = FALSE
    /\ last = [ op |-> "new", branch |-> "", action |-> "",
                from |-> Loop(""), result |-> NoResult,
                threw |-> FALSE, notified |-> << >>,
                pre |-> InitState, calls |-> {}, exited |-> FALSE, launched |-> 0 ]

InitOn(plans, callback, steps) ==
    /\ InitOrchestrator(plans, callback, steps)
    /\ scrape = Idle /\ inTab = Idle /\ waits = Idle

InitWith(callback, steps) == InitOn(Plans, callback, steps)

Init == InitWith(Null, MaxSteps)

Commit(c) ==
    /\ state' = c.state
    /\ plan' = c.plan
    /\ epoch' = c.epoch
    /\ dirty' = c.dirty
    /\ nObserve' = c.nObserve
    /\ UNCHANGED browser

\* A public method called by the user interface.
\* A call outside the method's enabling condition returns at once: it changes
\* nothing and is a stuttering step.
UserOp(op, c) ==
    IF c = Ctx
    THEN UNCHANGED << plan, state, epoch, loops, nObserve, nSteps, dirty, last, originalPlan,
                      budget, browser >>
    ELSE /\ nSteps < budget
         /\ Len(loops) + Len(c.launched) <= MaxLoops
         /\ Commit(c)
         /\ nSteps' = nSteps + 1
         /\ loops' = loops \o c.launched
         /\ last' = Last(op, "", "", c, { c.launched[k].pc : k \in DOMAIN c.launched }, FALSE,
                         Loop(""), NoResult)
         /\ UNCHANGED << originalPlan, budget >>

Start ==
    /\ UserOp("start", start(Ctx))
    /\ started' = (started \/ ~state.isRunning)
    /\ oracleBarred' = (oracleBarred /\ state.isRunning)
    /\ manualBarred' = (manualBarred /\ state.isRunning)
    /\ UNCHANGED << onStateChange, replaced >>

Pause ==
    /\ UserOp("pause", pause(Ctx))
    /\ UNCHANGED << started, oracleBarred, manualBarred, onStateChange, replaced >>

Resume ==
    /\ UserOp("resume", resume(Ctx))
    /\ manualBarred' = (manualBarred /\ ~(state.isRunning /\ state.isPaused))
    /\ UNCHANGED << started, oracleBarred, onStateChange, replaced >>

Stop ==
    /\ UserOp("stop", stop(Ctx))
    /\ UNCHANGED << started, oracleBarred, manualBarred, onStateChange, replaced >>

Abort ==
    /\ UserOp("abort", abort(Ctx))
    /\ UNCHANGED << started, oracleBarred, manualBarred, onStateChange, replaced >>

Retry ==
    /\ UserOp("retry", retry(Ctx))
    /\ started' = TRUE
    /\ oracleBarred' = FALSE
    /\ manualBarred' = FALSE
    /\ UNCHANGED << onStateChange, replaced >>

Subscribe ==
    \E callback \in Observers :
        /\ nSteps < budget
        /\ nSteps' = nSteps + 1
        /\ onStateChange' = subscribe(callback)
        /\ replaced' = (replaced \cup {onStateChange}) \ {Null, callback}
        /\ last' = Last("subscribe", "", "", Ctx, {}, FALSE, Loop(""), NoResult)
        /\ UNCHANGED << plan, originalPlan, budget, state, epoch, loops, nObserve, dirty,
                        started, oracleBarred, manualBarred, browser >>

\* The continuation of loop instance i after its awaited call returned.
LoopStep(i, op, action, from, r, result) ==
    /\ Commit(r.ctx)
    /\ loops' = ( IF r.loop.pc = "done"
                  THEN SubSeq(loops, 1, i - 1) \o SubSeq(loops, i + 1, Len(loops))
                  ELSE [loops EXCEPT ![i] = [r.loop EXCEPT !.born = loops[i].born]] )
                \o r.ctx.launched
    /\ last' = Last(op, r.branch, action, r.ctx, {r.loop.pc} \cap Awaits, r.loop.pc = "done",
                     from, result)
    /\ oracleBarred' = (oracleBarred \/ r.branch = "ABORT")
    /\ manualBarred' = ( \/ manualBarred
                         \/ /\ r.branch = "REQUIRES_MANUAL_INTERVENTION"
                            /\ state.isRunning /\ ~state.isPaused )
    /\ nSteps < budget
    /\ nSteps' = nSteps + 1
    /\ UNCHANGED << originalPlan, budget, onStateChange, replaced, started >>

ObserveReturns ==
    \E i \in DOMAIN loops :
        /\ loops[i].pc = "observe"
        /\ \E fault \in BOOLEAN, keys \in {MapIds} :
               LoopStep(i, "observe", "", loops[i], AfterObserve(Ctx, loops[i], fault, keys),
                        [NoResult EXCEPT !.threw = fault])

DecideReturns ==
    \E i \in DOMAIN loops :
        /\ loops[i].pc = "decide"
        /\ \E a \in OracleAnswers :
               LoopStep(i, "decide", a.action,
                        [loops[i] EXCEPT !.step = a.step, !.id = a.id],
                        AfterDecide(Ctx, loops[i], a),
                        [NoResult EXCEPT !.threw = a.fault])

WaitElapses ==
    \E i \in DOMAIN loops :
        /\ loops[i].pc = "wait"
        /\ LoopStep(i, "wait", "", loops[i], AfterWait(Ctx, loops[i]), NoResult)

ActReturns ==
    \E i \in DOMAIN loops :
        /\ loops[i].pc = "act"
        /\ \E env \in Envs :
               LET result == performActionInTab(loops[i].actionDetails, env)
               IN LoopStep(i, "act", loops[i].actionDetails.type, loops[i],
                           AfterAct(Ctx, loops[i], result), result)

Next ==
    \/ Start
    \/ Pause
    \/ Resume
    \/ Stop
    \/ Abort
    \/ Retry
    \/ ObserveReturns
    \/ DecideReturns
    \/ WaitElapses
    \/ ActReturns

Spec == Init /\ [][Next]_vars

\* ------------------------------------------------------------- calls outside
\* the enabling condition.  In Spec such a call is a stuttering step; here it
\* is a step of its own: the method runs on the current fields, whatever it
\* does is committed and recorded in `last`, and the behaviour ends there
\* (a call that changes nothing has the futures of the state it was made in).
ControlOps == {"start", "pause", "resume", "stop"}

\* the conditions under which lines 54, 66, 75 and 85 return at once
Disabled(op, s) ==
    CASE op = "start"  -> s.isRunning
      [] op = "pause"  -> ~s.isRunning \/ s.isPaused
      [] op = "resume" -> ~s.isRunning \/ ~s.isPaused
      [] op = "stop"   -> ~s.isRunning

Call(op, c) ==
    CASE op = "start"  -> start(c)
      [] op = "pause"  -> pause(c)
      [] op = "resume" -> resume(c)
      [] op = "stop"   -> stop(c)

CallOutsideCondition ==
    \E op \in ControlOps :
        LET c == Call(op, Ctx)
        IN /\ Disabled(op, state)
           /\ nSteps < MaxProbeDepth
           /\ Commit(c)
           /\ nSteps' = budget
           /\ loops' = loops \o c.launched
           /\ last' = Last(op, "", "", c, { c.launched[k].pc : k \in DOMAIN c.launched },
                            FALSE, Loop(""), NoResult)
           /\ UNCHANGED << originalPlan, budget, onStateChange, replaced, started, oracleBarred,
                           manualBarred >>

\* the user interface subscribes its render callback before it calls start()
InitCalls == InitWith(subscribe(1), MaxSteps)

NextCalls == Next \/ CallOutsideCondition

SpecCalls == InitCalls /\ [][NextCalls]_vars

\* ------------------------------------------------------------- subscribers.
\* The user interface may call subscribe() at any time, with any callback,
\* between its calls of start(), pause(), resume() and stop().
NextSubscribe ==
    \/ Subscribe
    \/ Start
    \/ Pause
    \/ Resume
    \/ Stop
    \/ ObserveReturns
    \/ DecideReturns
    \/ WaitElapses
    \/ ActReturns

SpecSubscribe == Init /\ [][NextSubscribe]_vars

\* ------------------------------------------------------------- a run left to
\* itself: the user only calls start() (again, after the run has ended); the
\* loop runs more iterations than in Spec.
InitRun == InitWith(Null, MaxRunSteps)

NextRun ==
    \/ Start
    \/ ObserveReturns
    \/ DecideReturns
    \/ WaitElapses
    \/ ActReturns

SpecRun == InitRun /\ [][NextRun]_vars

\* ------------------------------------------------------------- properties
mainStep == state.logs.mainStep
subStep  == state.logs.subStep
pointer  == state.currentStepIndex
HasMain  == Len(mainStep) > 0
LastMain == getCurrentMainStepLog(state)
CurSub   == getCurrentSubStepLog(state)
Open(e)  == e.status \in {"InProgress", "Paused"}
IsCritical(e) == e.status = "Failed" /\ Head(e.name) = "Critical Error"

\* C1: in every reachable state the step pointer satisfies
\* 0 <= pointer <= |Plan|.
C1_PointerInRange == pointer >= 0 /\ pointer <= Len(plan)

\* C2: at any time at most one instance of the execution loop is active
\* (entered and not yet returned).
C2_SingleLoop == Len(loops) <= 1

\* C3: whenever a started run is not running, its last MainStepLog is
\* Completed or Failed, never InProgress or Paused.
C3_StoppedIsTerminal ==
    (started /\ ~state.isRunning /\ HasMain) => LastMain.status \in {"Completed", "Failed"}

\* C4: at most one MainStepLog is InProgress or Paused, and if there is one it
\* is the last entry.
C4_OneOpenMainStep ==
    \A i \in DOMAIN mainStep : Open(mainStep[i]) => i = Len(mainStep)

\* C5: the MainStepLog and the SubStepLog sequences have the same length,
\* every MainStepLog has at least one sub-step entry, and once start() has
\* been called there is at least one MainStepLog.
C5_LogsAligned ==
    /\ Len(mainStep) = Len(subStep)
    /\ \A i \in DOMAIN subStep : Len(subStep[i]) >= 1
    /\ started => Len(mainStep) >= 1

\* C5 witness: a started run that has opened a second plan step.
C5_Witness == started /\ Len(mainStep) >= 2 /\ Len(subStep[1]) >= 3

\* C6: every mutation of RunState is followed by a notification before the
\* segment that made it returns to its caller or suspends.
C6_MutationNotified == ~dirty

\* C7: no exception escapes a public operation.
C7_NoExceptionEscapes == ~last.threw

\* C8: an action kind outside the closed set is handled as a critical error:
\* Failed sub-step, current MainStepLog Failed, isRunning false, the loop
\* returns, and the Action Executor is not called.
C8_UnknownKindIsCritical ==
    (last.op = "decide" /\ last.action \notin ActionKinds /\ last.action # "")
        => /\ last.branch = "critical"
           /\ "act" \notin last.calls
           /\ last.exited
           /\ ~state.isRunning
           /\ LastMain.status = "Failed"

\* C9: when the oracle answers ABORT, a Failed sub-step is appended, the
\* current MainStepLog becomes Failed, both flags become false and the loop
\* returns; and from then on no Decision Oracle call is issued until start()
\* or retry().
C9_AbortEndsOracleCalls ==
    /\ last.branch = "ABORT"
          => /\ LastMain.status = "Failed"
             /\ ~state.isRunning /\ ~state.isPaused
             /\ last.exited
             /\ Len(CurSub) >= 2
             /\ CurSub[Len(CurSub) - 1] = Entry("Failed", << "Execution aborted by AI" >>)
    /\ oracleBarred => "decide" \notin last.calls

\* C10: when Observe, Decide or Act raises, a Failed sub-step named
\* 'Critical Error...' is appended, the current MainStepLog is Failed,
\* isRunning is false, and the loop instance returns without another
\* iteration and without a restart.
C10_FaultIsCritical ==
    last.branch = "critical"
        => /\ LET n == Len(CurSub)
              IN \/ IsCritical(CurSub[n])
                 \/ /\ n >= 2
                    /\ IsCritical(CurSub[n - 1])
                    /\ CurSub[n] = Entry("Completed", << "Agent stopped by user." >>)
           /\ Len(mainStep) = Len(last.pre.logs.mainStep)
           /\ Len(CurSub) > Len(getCurrentSubStepLog(last.pre))
           /\ LastMain.status = "Failed"
           /\ ~state.isRunning
           /\ last.exited
           /\ last.calls = {}
           /\ last.launched = 0

\* C10 witness: the Action Executor raised while the run was running.
C10_Witness ==
    /\ last.branch = "critical" /\ last.op = "act"
    /\ last.pre.isRunning /\ ~state.isRunning

\* The 'Executing' entry pushed by the iteration whose call has just returned:
\* it is still in RunState, and RunState holds it with status st.
ExecutingLive == last.from.executing.epoch = epoch
ExecutingEntry ==
    state.logs.subStep[last.from.executing.index][last.from.executing.pos]
ExecutingIs(st) == ExecutingLive /\ ExecutingEntry.status = st

\* The loop goes on exactly as its while condition says.
LoopGoesOn ==
    IF state.isRunning /\ ~state.isPaused
    THEN "observe" \in last.calls /\ ~last.exited
    ELSE last.calls = {} /\ last.exited

\* The entries the top of the next iteration has pushed in the same segment.
NextIterationEntries == IF "observe" \in last.calls THEN 1 ELSE 0

\* C11: when the oracle answered an element action whose data.id is not a key
\* of the selector map of the same iteration's Observe, the iteration ends
\* with the 'Executing' sub-step Failed, the pointer and the MainStepLog
\* sequence unchanged, isRunning unchanged, the loop going on to its next
\* iteration, and no critical error.
C11_Case ==
    /\ last.op = "act" /\ last.action \in ElementKinds
    /\ last.from.id # "" /\ last.from.id \notin last.from.keys
    /\ ~last.result.threw

C11_AbsentIdFailsSoftly ==
    C11_Case
        => /\ last.branch = "failure"
           /\ ~last.result.success
           /\ pointer = last.pre.currentStepIndex
           /\ mainStep = last.pre.logs.mainStep
           /\ state.isRunning = last.pre.isRunning
           /\ LoopGoesOn
           /\ ExecutingIs("Failed")

\* C12: when the Action Executor returns success = false, whatever the step
\* directive, the pointer is unchanged, no MainStepLog is appended or changes
\* status, the action's 'Executing' sub-step is Failed with the executor's
\* message appended to its name, and the loop goes on to a new iteration.
C12_Case == last.op = "act" /\ ~last.result.threw /\ ~last.result.success

C12_FailureIsRecorded ==
    C12_Case
        => /\ last.branch = "failure"
           /\ pointer = last.pre.currentStepIndex
           /\ mainStep = last.pre.logs.mainStep
           /\ ExecutingIs("Failed")
           /\ ExecutingEntry.name = << "Executing", "Error", last.result.message >>
           /\ LoopGoesOn

\* C13: when the oracle answers COMPLETED with pointer p < |Plan| - 1,
\* whatever directive the answer carries, the current MainStepLog becomes
\* Completed, the pointer becomes p + 1, exactly one MainStepLog (InProgress,
\* named Plan[p + 1]) with a one-entry SubStepLog is appended, the Action
\* Executor is not called, and the loop goes on.
C13_Case ==
    /\ last.op = "decide" /\ last.action = "COMPLETED" /\ ~last.result.threw
    /\ last.pre.currentStepIndex < Len(plan) - 1

C13_CompletedAdvances ==
    C13_Case
        => LET old == last.pre.logs.mainStep
               n   == Len(old)
           IN /\ last.branch = "COMPLETED"
              /\ pointer = last.pre.currentStepIndex + 1
              /\ Len(mainStep) = n + 1 /\ Len(subStep) = n + 1
              /\ SubSeq(mainStep, 1, n) = [old EXCEPT ![n].status = "Completed"]
              /\ mainStep[n + 1] = Entry("InProgress", PlanAt(plan, pointer))
              /\ subStep[n + 1][1]
                     = Entry("Completed", << "Now executing step", PlanAt(plan, pointer) >>)
              /\ Len(subStep[n + 1]) = 1 + NextIterationEntries
              /\ "act" \notin last.calls
              /\ LoopGoesOn

\* C13 witness: COMPLETED carrying PREV_STEP at pointer 0 of a two-step plan
\* opened the second step and the loop went on to Observe.
C13_Witness ==
    /\ C13_Case /\ last.from.step = "PREV_STEP"
    /\ last.pre.currentStepIndex = 0 /\ pointer = 1
    /\ "observe" \in last.calls

\* C14: after a concrete action on which the executor reports success the
\* pointer p becomes p + 1 for NEXT_STEP, max(0, p - 1) for PREV_STEP and
\* stays p for STAY_ON_STEP; PREV_STEP at pointer 0 leaves it at 0.
C14_Case == last.op = "act" /\ ~last.result.threw /\ last.result.success

C14_DirectiveMovesPointer ==
    C14_Case
        => LET p == last.pre.currentStepIndex
           IN /\ last.branch = "success"
              /\ last.from.step = "NEXT_STEP" => pointer = p + 1
              /\ last.from.step = "PREV_STEP" => pointer = IF p = 0 THEN 0 ELSE p - 1
              /\ last.from.step = "STAY_ON_STEP" => pointer = p
              /\ last.from.step \in StepDirectives

\* C14 witness: a successful action carrying PREV_STEP at pointer 0.
C14_Witness ==
    /\ C14_Case /\ last.from.step = "PREV_STEP"
    /\ last.pre.currentStepIndex = 0 /\ pointer = 0

\* RunState s once the top of the next iteration has run, if it has.
WithNextIteration(s) ==
    IF "observe" \in last.calls
    THEN PushSub(s, Entry("Completed", << "Reading page content..." >>))
    ELSE s

\* C15: an iteration in which the oracle answers WAIT leaves the pointer
\* unchanged, appends no MainStepLog and changes no MainStepLog status, never
\* calls the Action Executor, and only appends one sub-step, which is
\* InProgress during the delay and Completed after it, before the loop
\* condition is evaluated again.
C15_Case == last.op = "wait"

C15_WaitOnlyLogsOneSubStep ==
    /\ (last.op = "decide" /\ last.action = "WAIT" /\ ~last.result.threw)
          => /\ last.branch = "WAIT" /\ last.calls = {"wait"}
             /\ state = PushSub(last.pre, Entry("InProgress", << "Executing" >>))
    /\ C15_Case
          => /\ last.branch = "waited" /\ "act" \notin last.calls
             /\ pointer = last.pre.currentStepIndex
             /\ mainStep = last.pre.logs.mainStep
             /\ LoopGoesOn
             /\ ExecutingLive
                   => /\ ExecutingEntry.status = "Completed"
                      /\ state = WithNextIteration(
                                    [last.pre EXCEPT
                                       !.logs.subStep[last.from.executing.index]
                                                     [last.from.executing.pos].status
                                           = "Completed"])
             /\ ~ExecutingLive => state = WithNextIteration(last.pre)

\* C16: when the oracle answers REQUIRES_MANUAL_INTERVENTION in a running,
\* unpaused run, the iteration ends with isRunning and isPaused true, the
\* current MainStepLog Paused, the pointer unchanged and no executor call;
\* and from then on no Observe, Oracle or Executor call is issued until
\* resume() (or a new run by start() or retry()).
C16_Case ==
    /\ last.op = "decide" /\ last.action = "REQUIRES_MANUAL_INTERVENTION"
    /\ ~last.result.threw
    /\ last.pre.isRunning /\ ~last.pre.isPaused

C16_ManualInterventionPauses ==
    /\ C16_Case
          => /\ last.branch = "REQUIRES_MANUAL_INTERVENTION"
             /\ state.isRunning /\ state.isPaused
             /\ LastMain.status = "Paused"
             /\ pointer = last.pre.currentStepIndex
             /\ last.exited
    /\ manualBarred => last.calls = {}

\* C17: each control operation called outside its enabling condition
\* (start() when running, pause() when not running or paused, resume() when
\* not running or not paused, stop() when not running) leaves RunState
\* unchanged, emits no notification and launches no loop.
C17_Case == last.op \in ControlOps /\ Disabled(last.op, last.pre)

C17_DisabledCallIsNoOp ==
    C17_Case
        => /\ state = last.pre
           /\ last.notified = << >>
           /\ last.launched = 0 /\ last.calls = {}
           /\ ~last.threw

\* C17 witness: stop() was called on a run that had already been stopped,
\* with a subscriber and a loop instance still suspended.
C17_Witness ==
    /\ C17_Case /\ last.op = "stop"
    /\ HasMain /\ onStateChange # Null /\ Len(loops) > 0

\* C18: pause() and stop() are honoured only when the loop condition is next
\* evaluated.  When the awaited call (Observe, Decide, the WAIT delay, Act) of
\* an instance returns in a run that is no longer running or is paused, the
\* iteration still runs to its end (Observe is followed by Decide, a concrete
\* action by Act), its result is still applied to RunState (sub-step status,
\* pointer, MainStepLog), and at its end the instance returns without a new
\* Observe call.
C18_Case ==
    /\ last.op \in Awaits /\ ~last.result.threw
    /\ ~last.pre.isRunning \/ last.pre.isPaused

C18_FlagsHonouredAtLoopBoundary ==
    C18_Case
        => LET old == last.pre
               k   == Len(old.logs.subStep)
               n   == Len(old.logs.subStep[k])
               m   == Len(old.logs.mainStep)
           IN /\ "observe" \notin last.calls
              /\ last.branch # "critical"
              /\ last.op = "observe" => last.calls = {"decide"} /\ ~last.exited
              /\ last.op = "decide"
                    => /\ last.action \notin SpecialKinds
                             => last.calls = {"act"} /\ ~last.exited
                       /\ last.action = "WAIT" => last.calls = {"wait"} /\ ~last.exited
                       /\ last.action \in SpecialKinds \ {"WAIT"}
                             => last.calls = {} /\ last.exited
                       /\ last.action = "COMPLETED"
                             => /\ pointer = old.currentStepIndex + 1
                                /\ mainStep[m].status = "Completed"
              /\ last.op = "wait"
                    => /\ last.calls = {} /\ last.exited
                       /\ ExecutingLive
                             => LET w == subStep[last.from.lastSubStep.index]
                                IN w[Len(w)].status = "Completed"
              /\ last.op = "act"
                    => /\ last.calls = {} /\ last.exited
                       /\ subStep[k][n].status
                             = IF last.result.success THEN "Completed" ELSE "Failed"
                       /\ (last.result.success /\ last.from.step = "NEXT_STEP")
                             => /\ pointer = old.currentStepIndex + 1
                                /\ mainStep[m].status = "Completed"

\* C18 witness: pause() was called while the Action Executor was in flight;
\* the executor then reported success with NEXT_STEP, the pointer advanced and
\* the instance returned.
C18_Witness ==
    /\ C18_Case /\ last.op = "act" /\ last.pre.isPaused /\ last.pre.isRunning
    /\ last.result.success /\ last.from.step = "NEXT_STEP"
    /\ ExecutingLive
    /\ Len(subStep[last.from.executing.index]) > last.from.executing.pos
    /\ subStep[last.from.executing.index][last.from.executing.pos + 1].name
          = << "Agent paused by user." >>
    /\ pointer = last.pre.currentStepIndex + 1 /\ last.exited

\* C19: pause() immediately followed by resume(), with no loop step in
\* between, leaves the pointer, isRunning, isPaused and the status of the
\* current MainStepLog as they were before pause(), and leaves every entry
\* that existed unchanged and in the same order: the two calls append the
\* pause note and the resume note to the current SubStepLog, and the loop
\* that resume() launches then starts its first iteration.
C19_Case == state.isRunning /\ ~state.isPaused

C19_PauseResumeRoundTrip ==
    C19_Case
        => LET c == resume(pause(Ctx))
               t == c.state
               k == Len(subStep)
               notes == << Entry("Paused", << "Agent paused by user." >>),
                           Entry("Completed", << "Agent resumed by user." >>) >>
               reading == << Entry("Completed", << "Reading page content..." >>) >>
           IN /\ ~c.threw
              /\ t.currentStepIndex = pointer
              /\ t.isRunning = state.isRunning /\ t.isPaused = state.isPaused
              /\ t.logs.mainStep = mainStep
              /\ Len(t.logs.subStep) = k
              /\ \A i \in 1..(k - 1) : t.logs.subStep[i] = subStep[i]
              /\ t.logs.subStep[k]
                    = subStep[k] \o notes \o (IF Len(c.launched) = 1 THEN reading ELSE << >>)

\* C19 witness: resume() was called right after pause(): the pause note was
\* the last entry when resume() began, and the run is running again.
C19_Witness ==
    /\ last.op = "resume" /\ C19_Case
    /\ LET old == getCurrentSubStepLog(last.pre)
       IN old[Len(old)] = Entry("Paused", << "Agent paused by user." >>)
    /\ LastMain.status = "InProgress"
    /\ pointer = last.pre.currentStepIndex

\* A fresh Orchestrator built from the plan given at construction.
FreshCtx == [Ctx EXCEPT !.state = InitState, !.plan = originalPlan, !.dirty = FALSE]

\* C20: a run begun by retry() in any reachable state is a fresh run.  retry()
\* leaves the RunState a start() on a new Orchestrator of the same plan
\* leaves, with one loop instance at its first Observe; and nothing of the
\* discarded run appears in the new RunState: the continuation of a loop
\* instance launched on a discarded state object leaves RunState as it is.
C20_Case == last.op \in Awaits /\ last.from.born # epoch

C20_RetryIsFreshRun ==
    /\ LET r == retry(Ctx)
           f == start(FreshCtx)
       IN /\ r.state = f.state /\ r.plan = f.plan
          /\ r.notified = f.notified /\ r.threw = f.threw
          /\ Len(r.launched) = 1 /\ Len(f.launched) = 1
          /\ r.launched[1].pc = f.launched[1].pc
    /\ C20_Case => state = last.pre

\* C21: immediately after retry(), called in any state, the pointer is 0,
\* isRunning is true, isPaused is false, the MainStepLog holds exactly one
\* entry (InProgress, named Plan[0]) and the plan used equals the plan given
\* at construction; and no operation ever modifies the plan sequence.
C21_Case == last.op = "retry"

C21_RetryResets ==
    /\ C21_Case
          => /\ pointer = 0
             /\ state.isRunning /\ ~state.isPaused
             /\ mainStep = << Entry("InProgress", PlanAt(originalPlan, 0)) >>
             /\ ~last.threw
    /\ plan = originalPlan
    /\ plan \in Plans

\* C21 witness: retry() was called on a run that had reached its second plan
\* step.
C21_Witness ==
    /\ C21_Case
    /\ last.pre.currentStepIndex > 0 /\ Len(last.pre.logs.mainStep) >= 2
    /\ pointer = 0 /\ Len(mainStep) = 1

\* C22: stop() called while running sets isRunning and isPaused to false,
\* changes the current MainStepLog to Failed exactly when its status was
\* InProgress, appends one terminal note to the current SubStepLog, leaves the
\* pointer (and everything else) unchanged, and notifies once.
C22_Case == last.op = "stop" /\ last.pre.isRunning

C22_StopEffect ==
    C22_Case
        => LET old == last.pre
               m   == Len(old.logs.mainStep)
               st  == IF old.logs.mainStep[m].status = "InProgress"
                      THEN "Failed" ELSE old.logs.mainStep[m].status
           IN /\ state = PushSub([old EXCEPT !.isRunning = FALSE, !.isPaused = FALSE,
                                            !.logs.mainStep[m].status = st],
                                 Entry("Completed", << "Agent stopped by user." >>))
              /\ pointer = old.currentStepIndex
              /\ last.notified = << onStateChange >>
              /\ last.launched = 0 /\ ~last.threw

\* C22 witness: stop() was called on a paused run; the MainStepLog stayed
\* Paused and the subscriber was called.
C22_Witness ==
    /\ C22_Case /\ last.pre.isPaused
    /\ LastMain.status = "Paused" /\ ~state.isRunning /\ ~state.isPaused
    /\ onStateChange # Null

\* C23: start() called when not running sets isRunning to true, appends
\* exactly one MainStepLog (InProgress) together with a one-entry SubStepLog,
\* notifies, and launches the loop (which goes to its first Observe); on a
\* freshly constructed Orchestrator this yields exactly one MainStepLog, named
\* Plan[0], with pointer 0.
C23_Case == last.op = "start" /\ ~last.pre.isRunning

C23_StartEffect ==
    C23_Case
        => LET old == last.pre
               n   == Len(old.logs.mainStep)
           IN /\ state.isRunning
              /\ Len(mainStep) = n + 1 /\ Len(subStep) = n + 1
              /\ SubSeq(mainStep, 1, n) = old.logs.mainStep
              /\ SubSeq(subStep, 1, n) = old.logs.subStep
              /\ mainStep[n + 1].status = "InProgress"
              /\ Len(subStep[n + 1]) = 1 + NextIterationEntries
              /\ subStep[n + 1][1].status = "Completed"
              /\ pointer = old.currentStepIndex
              /\ Len(last.notified) >= 1
              /\ last.launched = 1 /\ last.calls = {"observe"}
              /\ old = InitState
                    => /\ mainStep = << Entry("InProgress", PlanAt(plan, 0)) >>
                       /\ pointer = 0

\* C24: once the pointer equals |Plan| the run is terminal: isRunning is
\* false, the last MainStepLog is Completed, and from then on no Observe,
\* Oracle or Executor call is issued and the pointer does not change, unless
\* retry() is called.
C24_Case == pointer = Len(plan)

C24_EndOfPlanIsTerminal ==
    /\ C24_Case
          => /\ ~state.isRunning
             /\ LastMain.status = "Completed"
             /\ last.calls = {}
    /\ (last.pre.currentStepIndex = Len(plan) /\ last.op \notin {"new", "retry"})
          => pointer = Len(plan)

\* C25: in every iteration that calls the Action Executor, the selector
\* passed is either absent or exactly the value stored under the action's
\* data.id in the selector map returned by the same iteration's Observe call,
\* never a value of another Observe call and never a string of the oracle,
\* also when several loop instances or a retry() interleave.
C25_Case == \E i \in DOMAIN loops : loops[i].pc = "act"

C25_SelectorFromOwnObserve ==
    \A i \in DOMAIN loops :
        loops[i].pc = "act"
            => LET sel == loops[i].actionDetails.selector
               IN \/ sel = NoSelector
                  \/ /\ loops[i].id \in loops[i].keys
                     /\ loops[i].keys \in {MapIds}
                     /\ sel = << loops[i].obs, loops[i].id >>
                     /\ loops[i].obs \in 1..nObserve

\* C25 witness: an Executor call is in flight with a selector of its own
\* iteration's map while another instance has issued a later Observe call.
C25_Witness ==
    \E i \in DOMAIN loops :
        /\ loops[i].pc = "act"
        /\ loops[i].actionDetails.selector # NoSelector
        /\ loops[i].obs < nObserve
        /\ Len(loops) = 2

\* C26: subscribe() keeps a single observer: every notification goes to the
\* callback subscribed last and a replaced callback is never called again;
\* with no subscriber, mutations proceed without notification and without
\* error.
C26_Case == replaced # {} /\ last.notified # << >>

C26_SingleObserver ==
    /\ \A k \in DOMAIN last.notified :
          /\ last.notified[k] = onStateChange
          /\ last.notified[k] \notin replaced
    /\ onStateChange = Null => last.notified = << >> /\ ~last.threw
    /\ onStateChange \notin replaced
    /\ last.op = "subscribe" => state = last.pre /\ last.notified = << >>

\* C26 witness: callback 1 was subscribed, then replaced by callback 2, and a
\* later segment that changed RunState notified callback 2 (only).
C26_Witness ==
    /\ C26_Case /\ replaced = {1} /\ onStateChange = 2
    /\ state # last.pre
    /\ \A k \in DOMAIN last.notified : last.notified[k] = 2

\* C27: after a concrete action on which the executor reports success with
\* NEXT_STEP or PREV_STEP, the MainStepLog that was current is Completed and
\* then either the run terminates (new pointer equals |Plan|: final note
\* appended, isRunning false, no MainStepLog appended) or exactly one
\* MainStepLog (InProgress, named Plan[new pointer]) is appended, also when
\* PREV_STEP is clamped at 0; STAY_ON_STEP appends no MainStepLog and changes
\* no MainStepLog status.
C27_Case == last.op = "act" /\ ~last.result.threw /\ last.result.success

C27_DirectiveClosesStep ==
    C27_Case
        => LET old    == last.pre.logs.mainStep
               m      == Len(old)
               closed == [old EXCEPT ![m].status = "Completed"]
           IN /\ last.from.step = "STAY_ON_STEP" => mainStep = old
              /\ last.from.step \in {"NEXT_STEP", "PREV_STEP"}
                    => IF pointer = Len(plan)
                       THEN /\ mainStep = closed
                            /\ ~state.isRunning
                            /\ CurSub[Len(CurSub)]
                                 = Entry("Completed", << "Plan completed successfully!" >>)
                       ELSE mainStep
                              = Append(closed, Entry("InProgress", PlanAt(plan, pointer)))

\* C28: a critical error is never handled while isPaused is true: no segment
\* moves a run from Paused to Failed through the critical-error handler.
C28_Case == last.branch = "critical"

C28_NoCriticalWhilePaused == C28_Case => ~last.pre.isPaused

\* C29: the loop bounds no retries: an action on which the executor reports
\* failure leaves isRunning true, the pointer and every MainStepLog as they
\* were, marks the action sub-step Failed and starts the next iteration with
\* an Observe call, whatever the number of failures before; a loop segment
\* ends the run only on ABORT, COMPLETED, a fault, or a successful action
\* that leaves the plan.
C29_Case == last.op = "act" /\ last.branch = "failure"

FailedSubSteps == Cardinality({i \in DOMAIN CurSub : CurSub[i].status = "Failed"})

C29_FailureNeverEndsLoop ==
    /\ C29_Case
         => /\ state.isRunning /\ ~state.isPaused
            /\ pointer = last.pre.currentStepIndex
            /\ mainStep = last.pre.logs.mainStep
            /\ ExecutingIs("Failed")
            /\ "observe" \in last.calls /\ ~last.exited
    /\ ( /\ last.op \in {"observe", "decide", "wait", "act"}
         /\ last.pre.isRunning /\ ~state.isRunning )
         => last.branch \in {"ABORT", "COMPLETED", "critical", "success"}

C29_Witness ==
    /\ C29_Case
    /\ FailedSubSteps = 3
    /\ Len(CurSub) = 11
    /\ Len(mainStep) = 1
    /\ state.isRunning

\* C30: within every iteration the calls are strictly ordered: the oracle is
\* called only in the continuation of that iteration's Observe, the executor
\* is called at most once, only in the continuation of the oracle's answer
\* and only for a concrete action (one of the element and browser kinds),
\* never for ABORT, REQUIRES_MANUAL_INTERVENTION, WAIT or COMPLETED.
C30_Case == last.calls \cap {"decide", "act"} # {}

C30_CallsOrdered ==
    /\ Cardinality(last.calls) <= 1
    /\ "decide" \in last.calls => last.op = "observe" /\ ~last.result.threw
    /\ "act" \in last.calls
         => /\ last.op = "decide" /\ ~last.result.threw
            /\ last.action \notin SpecialKinds
            /\ last.action \in ElementKinds \cup BrowserKinds
    /\ last.op = "act" => last.calls \subseteq {"observe"}

\* C31: the execution log is append-only within a run: except for retry(),
\* no segment removes or reorders an entry of the MainStepLog or of any
\* SubStepLog, each sequence only grows at its end, and an entry that existed
\* before is modified only if it was the last MainStepLog or the last entry
\* of a SubStepLog.
C31_Case == last.op \notin {"new", "retry", "subscribe"}

\* old is kept at the front of new, but for the last entry of old
GrownAtEnd(old, new) ==
    /\ Len(old) <= Len(new)
    /\ \A i \in 1 .. Len(old) - 1 : new[i] = old[i]

C31_LogAppendOnly ==
    C31_Case
        => LET old == last.pre.logs
           IN /\ GrownAtEnd(old.mainStep, mainStep)
              /\ \A i \in DOMAIN old.mainStep : mainStep[i].name = old.mainStep[i].name
              /\ Len(old.subStep) <= Len(subStep)
              /\ \A k \in DOMAIN old.subStep : GrownAtEnd(old.subStep[k], subStep[k])

C31_Witness ==
    /\ C31_Case /\ last.op = "act"
    /\ Len(last.pre.logs.mainStep) = 2
    /\ Len(mainStep) = 3
    /\ mainStep[2] # last.pre.logs.mainStep[2]
    /\ subStep[2][Len(last.pre.logs.subStep[2])] # last.pre.logs.subStep[2][Len(last.pre.logs.subStep[2])]

\* C32: the status written after an executor call or after the WAIT delay is
\* applied to the very sub-step entry that was appended as InProgress
\* ('Executing') before the call: that entry becomes Completed or Failed and
\* no other entry that existed when the call returned has its status or name
\* changed.
C32_Case == last.op \in {"act", "wait"} /\ ~last.result.threw

C32_StatusGoesToExecutingEntry ==
    C32_Case
        => LET e   == last.from.executing
               old == last.pre.logs.subStep
           IN /\ ExecutingLive => ExecutingEntry.status \in {"Completed", "Failed"}
              /\ \A k \in DOMAIN old : \A i \in DOMAIN old[k] :
                     (ExecutingLive /\ k = e.index /\ i = e.pos)
                     \/ (k \in DOMAIN subStep /\ i \in DOMAIN subStep[k]
                           /\ subStep[k][i] = old[k][i])

\* ------------------------------------------------------------- SpecCompleted
\* One run in which the oracle answers COMPLETED on every call, no call
\* faults and start() is the only operation called: any plan over StepNames,
\* with or without a subscriber.
StepNames == 1 .. MaxPlanLen + 1

AnyPlans == UNION { [1..n -> StepNames] : n \in 1..MaxPlanLen }

InitCompleted ==
    \E callback \in {Null} \cup Observers : InitOn(AnyPlans, callback, MaxRunSteps)

StartOnce == ~started /\ Start

ObserveSucceeds == ObserveReturns /\ ~last'.result.threw

OracleCompletes ==
    DecideReturns /\ last'.action = "COMPLETED" /\ ~last'.result.threw

NextCompleted ==
    \/ StartOnce
    \/ ObserveSucceeds
    \/ OracleCompletes

\* An awaited call of a loop instance returns and its continuation runs: what
\* every step of ObserveSucceeds and of OracleCompletes is, as far as the
\* count of segments shows. A call that was issued does return.
CallReturns ==
    /\ \E i \in DOMAIN loops : loops[i].pc \in {"observe", "decide"}
    /\ nSteps < budget
    /\ nSteps' = nSteps + 1

SpecCompleted ==
    /\ InitCompleted /\ [][NextCompleted]_vars
    /\ WF_nSteps(CallReturns)

\* C33: for every plan of length n >= 1, if the oracle answers COMPLETED on
\* every call, no call faults and no operation is called after start(), the
\* run eventually terminates with pointer = n, isRunning false and exactly n
\* MainStepLogs, the i-th named Plan[i] and all Completed, after exactly n
\* oracle calls and no executor call.
NamedEntries(name) ==
    UNION { { << k, i >> : i \in { j \in DOMAIN subStep[k] :
                                       Head(subStep[k][j].name) = name } } :
            k \in DOMAIN subStep }

C33_Case ==
    /\ ~state.isRunning /\ started
    /\ loops = << >>

C33_Terminated ==
    /\ C33_Case
    /\ pointer = Len(plan)
    /\ mainStep = [i \in 1 .. Len(plan) |-> Entry("Completed", plan[i])]
    /\ nObserve = Len(plan)
    /\ Cardinality(NamedEntries("Deciding next action...")) = Len(plan)
    /\ NamedEntries("Executing") = {}

C33_AllCompletedTerminates ==
    /\ started ~> C33_Terminated
    /\ [](\A i \in DOMAIN loops : loops[i].pc # "act")

C33_Witness == C33_Terminated /\ Len(plan) = MaxPlanLen /\ plan[1] # plan[2]

\* C34: in every reachable state isPaused implies isRunning: the run is never
\* paused while not running.
C34_Case == state.isPaused

C34_PausedImpliesRunning == C34_Case => state.isRunning

\* C35: Completed and Failed are final statuses of a MainStepLog: within a
\* run (retry() apart) no segment changes the status of an entry that was
\* Completed or Failed when the segment began.
C35_Case ==
    /\ last.op \notin {"new", "retry", "subscribe"}
    /\ \E i \in DOMAIN last.pre.logs.mainStep :
           last.pre.logs.mainStep[i].status \in {"Completed", "Failed"}

C35_FinalStatusesStay ==
    C35_Case
        => \A i \in DOMAIN last.pre.logs.mainStep :
              last.pre.logs.mainStep[i].status \in {"Completed", "Failed"}
                 => /\ i \in DOMAIN mainStep
                    /\ mainStep[i].status = last.pre.logs.mainStep[i].status

\* C36: whenever isRunning is true, the pointer is smaller than |Plan| and
\* the name of the last MainStepLog equals Plan[pointer].
C36_Case == state.isRunning

C36_LogShowsCurrentStep ==
    C36_Case
        => /\ pointer < Len(plan)
           /\ HasMain
           /\ LastMain.name = PlanAt(plan, pointer)

\* ------------------------------------------------------------- SpecScrape
\* scrapePageInTab run on one page. A page is the list of element children of
\* document.body; an element is a tag and the list of its element children.
\* Strings are sequences of characters and fixed pieces of text.
SkippedTags == {"script", "style", "meta", "link", "head"}

PageTags == {"div", "script"}

Element(tag, children) == [tag |-> tag, children |-> children]

RECURSIVE Forests(_)
\* the lists of elements with n elements in all
Forests(n) ==
    IF n = 0 THEN { << >> }
    ELSE UNION { { << Element(t, f1) >> \o f2 :
                       t \in PageTags, f1 \in Forests(k), f2 \in Forests(n - 1 - k) }
                 : k \in 0 .. n - 1 }

SmallPages == UNION { Forests(n) : n \in 0 .. MaxNodes }

\* MaxWide children of body, each with one child or none
WidePages ==
    { [i \in 1 .. MaxWide |->
          Element("div", IF i \in S THEN << Element("div", << >>) >> ELSE << >>)]
      : S \in SUBSET (1 .. MaxWide) }

Pages == SmallPages \cup WidePages

DigitChars == << "0", "1", "2", "3", "4", "5", "6", "7", "8", "9" >>

RECURSIVE ToDecimal(_)
\* `${i}` of a number
ToDecimal(i) ==
    IF i < 10 THEN << DigitChars[i + 1] >>
    ELSE ToDecimal(i \div 10) \o << DigitChars[(i % 10) + 1] >>

EmptyMap == [k \in {} |-> << >>]

\* selectorMap[key] = value
Put(map, key, value) ==
    [k \in DOMAIN map \cup {key} |-> IF k = key THEN value ELSE map[k]]

\* `${parentId}${i}` : the id without its closing underscore
uniqueIdOf_NoSeparator(parentId, i) == parentId \o ToDecimal(i)

\* `${parentId}${i}_`
uniqueIdOf(parentId, i) == parentId \o ToDecimal(i) \o << "_" >>

\* `${parentSelector} > :nth-child(${i + 1})`
selectorOfChild(parentSelector, i) ==
    parentSelector \o << " > :nth-child(" >> \o ToDecimal(i + 1) \o << ")" >>

RECURSIVE parseNodeChildren(_, _, _, _, _)
\* The for loop of parseNodeChildren from index i on; acc holds the children
\* array built so far and the selectorMap, which all calls share.
parseNodeChildren(children, i, parentId, parentSelector, acc) ==
    IF i >= Len(children) THEN acc
    ELSE LET child == children[i + 1]
         IN IF child.tag \in SkippedTags
            THEN parseNodeChildren(children, i + 1, parentId, parentSelector, acc)
            ELSE LET uniqueId        == uniqueIdOf(parentId, i)
                     currentSelector == selectorOfChild(parentSelector, i)
                     sub == parseNodeChildren(
                                child.children, 0, uniqueId, currentSelector,
                                [ children |-> << >>,
                                  selectorMap |-> Put(acc.selectorMap, uniqueId,
                                                      currentSelector) ])
                     elementDto == [ tag |-> child.tag, id |-> uniqueId,
                                     children |-> sub.children ]
                 IN parseNodeChildren(children, i + 1, parentId, parentSelector,
                                      [ children |-> Append(acc.children, elementDto),
                                        selectorMap |-> sub.selectorMap ])

scrapePageInTab(body) ==
    LET r == parseNodeChildren(body, 0, << >>, << "body" >>,
                               [children |-> << >>, selectorMap |-> EmptyMap])
    IN [ domDto |-> r.children, selectorMap |-> r.selectorMap ]

InitScrape ==
    /\ InitOrchestrator({ << 1 >> }, Null, 0)
    /\ scrape \in { [pc |-> "page", body |-> b] : b \in Pages }
    /\ inTab = Idle /\ waits = Idle

ScrapePage ==
    /\ scrape.pc = "page"
    /\ scrape' = [ pc |-> "scraped", body |-> scrape.body,
                   result |-> scrapePageInTab(scrape.body) ]
    /\ UNCHANGED << orchestrator, inTab, waits >>

NextScrape == ScrapePage

SpecScrape == InitScrape /\ [][NextScrape]_vars

\* C37: for every page, the selector map built by one scrape is a bijection:
\* distinct elements get distinct ids, distinct ids map to distinct
\* selectors, the ids of the snapshot tree are exactly the keys of the map,
\* elements with a skipped tag get neither an id nor an entry, and each
\* selector addresses the element it was made for: skipped siblings do not
\* shift the nth-child position.
RECURSIVE Flatten(_)
\* the elements of a snapshot tree, parents before children, in page order
Flatten(dtos) ==
    IF dtos = << >> THEN << >>
    ELSE << Head(dtos) >> \o Flatten(Head(dtos).children) \o Flatten(Tail(dtos))

RECURSIVE KeptPaths(_, _, _)
\* the elements of a page, as paths of 0-based child indices, that have no
\* skipped tag and no ancestor with one, parents before children
KeptPaths(children, i, path) ==
    IF i >= Len(children) THEN << >>
    ELSE LET child == children[i + 1]
             here  == Append(path, i)
         IN (IF child.tag \in SkippedTags THEN << >>
             ELSE << [path |-> here, tag |-> child.tag] >>
                  \o KeptPaths(child.children, 0, here))
            \o KeptPaths(children, i + 1, path)

RECURSIVE ToNumber(_)
ToNumber(digits) ==
    IF digits = << >> THEN 0
    ELSE 10 * ToNumber(SubSeq(digits, 1, Len(digits) - 1))
         + (CHOOSE d \in 0 .. 9 : DigitChars[d + 1] = digits[Len(digits)])

RECURSIVE Descend(_, _, _)
\* follows the ` > :nth-child(n)` steps of a selector from a list of children
Descend(children, steps, path) ==
    IF steps = << >> THEN path
    ELSE LET close == CHOOSE j \in DOMAIN steps :
                          steps[j] = ")" /\ \A h \in 1 .. j - 1 : steps[h] # ")"
             n     == ToNumber(SubSeq(steps, 2, close - 1))
             rest  == SubSeq(steps, close + 1, Len(steps))
         IN IF steps[1] # " > :nth-child(" \/ n \notin DOMAIN children THEN Null
            ELSE IF rest = << >> THEN Append(path, n - 1)
            ELSE Descend(children[n].children, rest, Append(path, n - 1))

\* document.querySelector(selector) for the selectors the scrape writes:
\* the path of the element found, or Null
querySelector(body, selector) ==
    IF selector = << >> \/ Head(selector) # "body" THEN Null
    ELSE Descend(body, Tail(selector), << >>)

C37_Case == scrape.pc = "scraped"

C37_MapIsBijection ==
    C37_Case
        => LET map   == scrape.result.selectorMap
               dtos  == Flatten(scrape.result.domDto)
               kept  == KeptPaths(scrape.body, 0, << >>)
           IN /\ Len(dtos) = Len(kept)
              /\ \A a, b \in DOMAIN dtos : a # b => dtos[a].id # dtos[b].id
              /\ \A k1, k2 \in DOMAIN map : k1 # k2 => map[k1] # map[k2]
              /\ { dtos[a].id : a \in DOMAIN dtos } = DOMAIN map
              /\ \A a \in DOMAIN dtos :
                     /\ dtos[a].tag = kept[a].tag
                     /\ dtos[a].tag \notin SkippedTags
                     /\ querySelector(scrape.body, map[dtos[a].id]) = kept[a].path

C37_Witness ==
    /\ C37_Case
    /\ Len(scrape.body) = 2
    /\ scrape.body[1].tag = "script"
    /\ scrape.body[2].tag = "div"
    /\ Len(scrape.body[2].children) = 2
    /\ scrape.body[2].children[1].tag = "script"
    /\ Cardinality(DOMAIN scrape.result.selectorMap) = 2

\* ------------------------------------------------------------- SpecInTab
\* One run of the injected performAction on one element of the page, followed
\* from await to await. highlighted is the element's class 'agent-highlight';
\* marked records that highlightElement has put it.
Thrown == [threw |-> TRUE, success |-> FALSE, message |-> "exception"]

\* leaving the try block without the finally clause, but on success
leaveTry_OnlyOnSuccess(t, exit, result) ==
    IF exit = "success"
    THEN [t EXCEPT !.pc = "unhighlightDelay", !.highlighted = FALSE,
                   !.exit = exit, !.result = result]
    ELSE [t EXCEPT !.pc = "returned", !.exit = exit, !.result = result]

\* finally { await unhighlightElement(element) }: classList.remove, then the
\* 100 ms delay, with the return value or the exception pending
leaveTry(t, exit, result) ==
    [t EXCEPT !.pc = "unhighlightDelay", !.highlighted = FALSE,
              !.exit = exit, !.result = result]

InitInTab ==
    /\ InitOrchestrator({ << 1 >> }, Null, 0)
    /\ inTab \in { [ pc |-> "called", actionType |-> k, text |-> x, found |-> f,
                      highlighted |-> FALSE, marked |-> FALSE,
                      exit |-> "", result |-> NoResult ] :
                    k \in ElementKinds \cup {UnknownKind}, x \in Texts, f \in BOOLEAN }
    /\ scrape = Idle /\ waits = Idle

InTabStep(t) == inTab' = t /\ UNCHANGED << orchestrator, scrape, waits >>

\* performAction is called: findElement, then highlightElement up to its delay
FindAndHighlight ==
    /\ inTab.pc = "called"
    /\ IF ~inTab.found
       THEN InTabStep([inTab EXCEPT
                          !.pc = "returned", !.exit = "notfound",
                          !.result = performAction(inTab.actionType, << 1, "0_" >>,
                                                   inTab.text, FALSE)])
       ELSE \E styleFault \in BOOLEAN :       \* document.head.appendChild throws
               IF styleFault
               THEN InTabStep(leaveTry(inTab, "exception", Thrown))
               ELSE InTabStep([inTab EXCEPT !.pc = "highlightDelay",
                                            !.highlighted = TRUE, !.marked = TRUE])

\* the 500 ms delay is over: the switch on actionType
Switch ==
    /\ inTab.pc = "highlightDelay"
    /\ LET r == performAction(inTab.actionType, << 1, "0_" >>, inTab.text, TRUE)
       IN IF r.success
          THEN InTabStep([inTab EXCEPT !.pc = "interacting"])
          ELSE InTabStep(leaveTry(inTab,
                                  IF inTab.actionType \in ElementKinds
                                  THEN "missing" ELSE "unknown", r))

\* simulateClick / simulateSelect / simulateType ends, normally or by throwing
InteractionEnds ==
    /\ inTab.pc = "interacting"
    /\ \E throws \in BOOLEAN :
          IF throws
          THEN InTabStep(leaveTry(inTab, "exception", Thrown))
          ELSE InTabStep(leaveTry(inTab, "success",
                                  performAction(inTab.actionType, << 1, "0_" >>,
                                                inTab.text, TRUE)))

\* the 100 ms delay of unhighlightElement is over: performAction returns
Return ==
    /\ inTab.pc = "unhighlightDelay"
    /\ InTabStep([inTab EXCEPT !.pc = "returned"])

NextInTab ==
    \/ FindAndHighlight
    \/ Switch
    \/ InteractionEnds
    \/ Return

SpecInTab == InitInTab /\ [][NextInTab]_vars

\* C38: for every element action whose element was found, the highlight put
\* on the element before the interaction is removed before performAction
\* returns, on every exit path: success, a missing text for SELECT / TYPE, an
\* unknown action kind, and an exception thrown by the interaction.
C38_Case == inTab.pc = "returned" /\ inTab.found

C38_HighlightRemoved ==
    /\ C38_Case
         => /\ ~inTab.highlighted
            /\ inTab.exit \in {"success", "missing", "unknown", "exception"}
            /\ inTab.exit \in {"success", "missing", "unknown"} => inTab.marked
    /\ inTab.pc \in {"highlightDelay", "interacting"} => inTab.highlighted

C38_Witness ==
    /\ C38_Case
    /\ inTab.marked
    /\ inTab.exit = "exception"
    /\ ~inTab.highlighted

\* ------------------------------------------------------------- SpecWait
\* One call of waitForTabLoad(tabId). The browser reports tab updates, each
\* delivered to the listener while it is registered; the timer fires unless
\* it was cleared. A URL is its scheme followed by the rest, << >> if absent.
TabIds == {1, 2}

Urls == { << >>, << "chrome://", "settings" >>, << "https://", "example.org" >> }

Statuses == {"loading", "complete"}

startsWith(url, prefix) == Len(url) > 0 /\ Head(url) = prefix

\* the timeout callback leaving the listener registered
onTimeout_KeepsListener(w) ==
    [w EXCEPT !.timer = "fired", !.resolved = TRUE, !.by = "timeout"]

\* the setTimeout callback: removeListener, resolve
onTimeout(w) ==
    [w EXCEPT !.timer = "fired", !.listener = FALSE, !.resolved = TRUE, !.by = "timeout"]

\* listener(updatedTabId, changeInfo, tab)
listener(w, updatedTabId, status, url) ==
    IF updatedTabId = w.tabId /\ status = "complete"
       /\ url # << >> /\ ~startsWith(url, "chrome://")
    THEN [w EXCEPT !.timer = IF @ = "armed" THEN "cleared" ELSE @,
                   !.listener = FALSE, !.resolved = TRUE,
                   !.by = IF w.resolved THEN @ ELSE "loaded"]
    ELSE w

\* waitForTabLoad(tabId): the promise's executor
waitForTabLoad(tabId) ==
    [ pc |-> "waiting", tabId |-> tabId, listener |-> TRUE, timer |-> "armed",
      resolved |-> FALSE, by |-> "",
      event |-> [tab |-> 0, status |-> "", url |-> << >>, delivered |-> FALSE],
      nEvents |-> 0 ]

InitWait ==
    /\ InitOrchestrator({ << 1 >> }, Null, 0)
    /\ waits \in { [ waitForTabLoad(t) EXCEPT !.pc = "called", !.listener = FALSE,
                                               !.timer = "none" ] : t \in TabIds }
    /\ scrape = Idle /\ inTab = Idle

WaitStep(w) == waits' = w /\ UNCHANGED << orchestrator, scrape, inTab >>

CallWait ==
    /\ waits.pc = "called"
    /\ WaitStep(waitForTabLoad(waits.tabId))

\* chrome.tabs.onUpdated fires
TabUpdated ==
    /\ waits.pc = "waiting"
    /\ waits.nEvents < MaxEvents
    /\ \E t \in TabIds, st \in Statuses, url \in Urls :
          LET w == IF waits.listener THEN listener(waits, t, st, url) ELSE waits
          IN WaitStep([w EXCEPT !.nEvents = @ + 1,
                                !.event = [tab |-> t, status |-> st, url |-> url,
                                           delivered |-> waits.listener]])

\* the 5 seconds are over and the timer was not cleared
TimerFires ==
    /\ waits.pc = "waiting"
    /\ waits.timer = "armed"
    /\ WaitStep(onTimeout(waits))

NextWait ==
    \/ CallWait
    \/ TabUpdated
    \/ TimerFires

SpecWait == InitWait /\ [][NextWait]_vars /\ WF_vars(TimerFires)

\* C39: the page-load wait always completes: it resolves when the tab reports
\* status 'complete' or, if that never happens, when the 5-second timer
\* fires, whichever comes first; in both cases the listener is removed, and
\* the loaded path cancels the timer.
C39_Case == waits.pc = "waiting"

Cleaned ==
    waits.resolved
        => /\ ~waits.listener
           /\ waits.by \in {"loaded", "timeout"}
           /\ waits.by = "loaded" => waits.timer = "cleared"
           /\ waits.by = "timeout" => waits.timer = "fired"

C39_Safe ==
    C39_Case
        => /\ Cleaned
           /\ ~waits.resolved => waits.listener /\ waits.timer = "armed"
           /\ ( /\ waits.event.delivered
                /\ waits.event.tab = waits.tabId
                /\ waits.event.status = "complete"
                /\ waits.event.url # << >>
                /\ ~startsWith(waits.event.url, "chrome://") )
                => waits.resolved
           /\ waits.by = "loaded"
                => \/ ~waits.event.delivered
                   \/ /\ waits.event.tab = waits.tabId
                      /\ waits.event.status = "complete"
                      /\ ~startsWith(waits.event.url, "chrome://")

====
